---- MODULE Spec2Model ----
(***************************************************************************)
(* A model of src/src/data_handling/data_io.py: the reader/writer registry *)
(* (_IOFactory), the CSV and SQL strategies, and the facade functions      *)
(* load_data / save_data.  Paths are sequences of components, CSV text is  *)
(* a sequence of rows of fields, and every call records its outcome (a     *)
(* returned value or a raised exception) and the external calls it made.   *)
(***************************************************************************)
EXTENDS Integers, Sequences, FiniteSets, TLC

VARIABLES readers, writers, fs, df, written, latest, nregs, last

vars == <<readers, writers, fs, df, written, latest, nregs, last>>

\* ------------------------------------------------------------------ bounds

\* Most register_reader / register_writer calls made after import.
MaxRegs == 2
\* Longest path, in components.
MaxDepth == 3
\* Most rows of a table handed to the round trip.
MaxRows == 2

\* ------------------------------------------------------------ format tags

Tags == {"csv", "sql", "json"}

\* Strategy classes: the built-ins, the test's JsonReader / JsonWriter, and
\* classes whose constructor raises.
ReaderClasses == {"_SqlReader", "_CsvReader", "JsonReader", "KeyErrReader", "BrokenReader"}

WriterClasses == {"_SqlWriter", "_CsvWriter", "JsonWriter", "KeyErrWriter", "BrokenWriter"}

\* What calling the class, cls(), does: "ok" or the exception type it raises.
Construct(cls) ==
    CASE cls \in {"KeyErrReader", "KeyErrWriter"} -> "KeyError"
      [] cls \in {"BrokenReader", "BrokenWriter"} -> "RuntimeError"
      [] OTHER -> "ok"

\* ------------------------------------------------------------- outcomes

Return(v) == [kind |-> "return", value |-> v]

Raise(e) == [kind |-> "raise", exc |-> e]

\* An exception: its type, its message (a fixed text and the value
\* interpolated in it) and the type of its __cause__ ("None" without one).
Exc(type, text, arg, cause) == [type |-> type, text |-> text, arg |-> arg, cause |-> cause]

NoneVal == "None"

\* Python's exception hierarchy, as far as the program's errors go.
Bases(type) ==
    CASE type \in {"FileNotFoundError", "FileExistsError", "IsADirectoryError",
                    "NotADirectoryError"}
            -> {type, "OSError", "Exception"}
      [] type = "EmptyDataError" -> {type, "ValueError", "Exception"}
      [] type = "KeyError" -> {type, "LookupError", "Exception"}
      [] OTHER -> {type, "Exception"}

IsInstance(e, cls) == cls \in Bases(e.type)

\* ------------------------------------------------------------- registry

\* The two class-level dictionaries after import: the four decorators ran.
InitReaders == [t \in {"sql", "csv"} |-> IF t = "sql" THEN "_SqlReader" ELSE "_CsvReader"]

InitWriters == [t \in {"sql", "csv"} |-> IF t = "sql" THEN "_SqlWriter" ELSE "_CsvWriter"]

\* As SetItem, but an existing entry is kept (dict.setdefault).
MutSetItem(d, key, value) ==
    [k \in DOMAIN d \cup {key} |-> IF k \in DOMAIN d THEN d[k] ELSE value]

\* d[key] = value on a dictionary.
SetItem(d, key, value) == [k \in DOMAIN d \cup {key} |-> IF k = key THEN value ELSE d[k]]

\* As GetReaderRes, but the KeyError of a miss is not translated.
MutGetReaderRes(regs, format_type) ==
    IF format_type \notin DOMAIN regs
    THEN Raise(Exc("KeyError", "", format_type, "None"))
    ELSE LET c == Construct(regs[format_type]) IN
         IF c = "ok" THEN Return(regs[format_type])
         ELSE Raise(Exc(c, "constructor failed", regs[format_type], "None"))

\* get_reader(format_type): the lookup and the constructor call are both
\* inside the try, so a KeyError of either becomes the ValueError.
GetReaderRes(regs, format_type) ==
    IF format_type \notin DOMAIN regs
    THEN Raise(Exc("ValueError", "No reader registered for format: ", format_type, "KeyError"))
    ELSE LET c == Construct(regs[format_type]) IN
         CASE c = "ok" -> Return(regs[format_type])
           [] c = "KeyError" ->
                Raise(Exc("ValueError", "No reader registered for format: ", format_type, "KeyError"))
           [] OTHER -> Raise(Exc(c, "constructor failed", regs[format_type], "None"))

GetWriterRes(regs, format_type) ==
    IF format_type \notin DOMAIN regs
    THEN Raise(Exc("ValueError", "No writer registered for format: ", format_type, "KeyError"))
    ELSE LET c == Construct(regs[format_type]) IN
         CASE c = "ok" -> Return(regs[format_type])
           [] c = "KeyError" ->
                Raise(Exc("ValueError", "No writer registered for format: ", format_type, "KeyError"))
           [] OTHER -> Raise(Exc(c, "constructor failed", regs[format_type], "None"))

\* ------------------------------------------------------------ filesystem

\* A path is the sequence of its components: "d/d/d" is <<"d", "d", "d">>.
PathOf(n) == [i \in 1..n |-> "d"]

Paths == {PathOf(n) : n \in 1..MaxDepth}

\* A connection string; no file of that name exists.
DbUrl == <<"postgres:", "", "fake-db">>

\* os.path.dirname: the path without its last component ("" for a bare
\* name), and without the slashes that end it (the empty components), unless
\* it is made of slashes only.
Dirname(p) ==
    LET head == SubSeq(p, 1, Len(p) - 1)
        named == {k \in 1..Len(head) : head[k] # ""}
    IN  IF named = {} THEN head
        ELSE SubSeq(head, 1, CHOOSE k \in named : \A j \in named : j <= k)

Absent == [kind |-> "absent", data |-> <<>>]

Dir == [kind |-> "dir", data |-> <<>>]

File(text) == [kind |-> "file", data |-> text]

\* os.path.exists / os.path.isdir.
Exists(f, p) == p \in DOMAIN f /\ f[p].kind # "absent"

IsDir(f, p) == p \in DOMAIN f /\ f[p].kind = "dir"

\* A filesystem is well formed when whatever exists lies in a directory.
WellFormed(f) == \A p \in DOMAIN f : (Exists(f, p) /\ Len(p) > 1) => IsDir(f, Dirname(p))

\* The filesystems the program may find: directories and empty files.
InitialFs == {f \in [Paths -> {Absent, Dir, File(<<>>)}] : WellFormed(f)}

\* os.mkdir(name): the error it raises ("ok" when it creates the directory).
\* The outermost ancestor that is no directory decides: a file on the way
\* gives NotADirectoryError, a missing ancestor FileNotFoundError.
MkdirErr(f, name) ==
    LET bad == {k \in 1..(Len(name) - 1) : ~IsDir(f, SubSeq(name, 1, k))} IN
    IF Exists(f, name) THEN "FileExistsError"
    ELSE IF bad # {}
         THEN LET first == CHOOSE k \in bad : \A j \in bad : k <= j IN
              IF Exists(f, SubSeq(name, 1, first)) THEN "NotADirectoryError"
              ELSE "FileNotFoundError"
         ELSE "ok"

\* As MakeDirs, but os.mkdir: the directory itself and no ancestor.
MutMakeDirs(f, name) ==
    LET e == MkdirErr(f, name) IN
    IF e = "ok" THEN [fs |-> [f EXCEPT ![name] = Dir], err |-> "ok"]
    ELSE IF IsDir(f, name) THEN [fs |-> f, err |-> "ok"]
    ELSE [fs |-> f, err |-> e]

\* os.makedirs(name, exist_ok=True): the missing ancestors first, then name.
RECURSIVE MakeDirs(_, _)
MakeDirs(f, name) ==
    LET head == Dirname(name)
        up == IF Len(head) > 0 /\ ~Exists(f, head)
              THEN MakeDirs(f, head)
              ELSE [fs |-> f, err |-> "ok"]
    IN  IF up.err \notin {"ok", "FileExistsError"}
        THEN up
        ELSE LET e == MkdirErr(up.fs, name) IN
             IF e = "ok" THEN [fs |-> [up.fs EXCEPT ![name] = Dir], err |-> "ok"]
             ELSE IF IsDir(up.fs, name) THEN [fs |-> up.fs, err |-> "ok"]
             ELSE [fs |-> up.fs, err |-> e]

\* ---------------------------------------------------------------- tables

\* A cell of a table: an integer, a string, a float or a missing value.
IntCell(n) == [t |-> "int", n |-> n, s |-> ""]

StrCell(s) == [t |-> "str", n |-> 0, s |-> s]

FloatCell(n) == [t |-> "float", n |-> n, s |-> ""]

NaN == [t |-> "nan", n |-> 0, s |-> ""]

\* str(n) and repr(float(n)) for the small numbers of the model.
Digits == <<"0", "1", "2", "3", "4", "5", "6", "7", "8", "9">>

FloatDigits == <<"0.0", "1.0", "2.0", "3.0", "4.0", "5.0", "6.0", "7.0", "8.0", "9.0">>

\* The column names read_csv gives to an empty header field.
Unnamed == <<"Unnamed: 0", "Unnamed: 1", "Unnamed: 2", "Unnamed: 3">>

\* Some of the tokens read_csv takes for a missing value.
NaValues == {"", "NA", "NaN", "null"}

\* A table: column names and rows of cells (the positional index is implicit).
Table(cols, rows) == [cols |-> cols, rows |-> rows]

\* The text to_csv writes for a cell.
FormatCell(c) ==
    CASE c.t = "int" -> Digits[c.n + 1]
      [] c.t = "float" -> FloatDigits[c.n + 1]
      [] c.t = "str" -> c.s
      [] OTHER -> ""

\* df.to_csv(index=index): the header line, then one line per row; with the
\* index, a first field holding the row's position under an empty name.
ToCsvText(T, index) ==
    <<(IF index THEN <<"">> ELSE <<>>) \o T.cols>> \o
    [i \in 1..Len(T.rows) |->
        (IF index THEN <<Digits[i]>> ELSE <<>>) \o
        [j \in 1..Len(T.cols) |-> FormatCell(T.rows[i][j])]]

IsIntToken(s) == \E n \in 1..Len(Digits) : Digits[n] = s

IsFloatToken(s) == \E n \in 1..Len(FloatDigits) : FloatDigits[n] = s

TokenValue(s) ==
    IF IsIntToken(s) THEN (CHOOSE n \in 1..Len(Digits) : Digits[n] = s) - 1
    ELSE (CHOOSE n \in 1..Len(FloatDigits) : FloatDigits[n] = s) - 1

\* The type read_csv infers for column j of the text.
ColumnKind(text, j) ==
    LET toks == [i \in 1..(Len(text) - 1) |-> text[i + 1][j]]
        known == {i \in 1..Len(toks) : toks[i] \notin NaValues}
    IN  IF Len(toks) = 0 THEN "object"
        ELSE IF \A i \in known : IsIntToken(toks[i])
             THEN (IF Cardinality(known) = Len(toks) THEN "int" ELSE "float")
        ELSE IF \A i \in known : IsIntToken(toks[i]) \/ IsFloatToken(toks[i])
             THEN "float"
        ELSE "object"

ParseCell(tok, kind) ==
    IF tok \in NaValues THEN NaN
    ELSE CASE kind = "int" -> IntCell(TokenValue(tok))
           [] kind = "float" -> FloatCell(TokenValue(tok))
           [] OTHER -> StrCell(tok)

\* pd.read_csv on a text with a header line: names from the header, one
\* row per further line, each column converted to its inferred type.
ParseCsv(text) ==
    LET header == text[1] IN
    Table([j \in 1..Len(header) |-> IF header[j] = "" THEN Unnamed[j] ELSE header[j]],
          [i \in 1..(Len(text) - 1) |->
              [j \in 1..Len(header) |-> ParseCell(text[i + 1][j], ColumnKind(text, j))]])

\* ------------------------------------------------------ keyword arguments

\* **kwargs with the keys the callers of the model pass; a key is present
\* when its sequence is not empty.
Kw(query, index) == [query |-> query, index |-> index]

NoKw == Kw(<<>>, <<>>)

KwargsSet ==
    {NoKw, Kw(<<"">>, <<>>), Kw(<<"SELECT *">>, <<>>), Kw(<<"SELECT 1">>, <<>>),
     Kw(<<>>, <<TRUE>>), Kw(<<>>, <<FALSE>>)}

\* ------------------------------------------------------------ strategies

\* What a strategy call did: its outcome, the external calls it made in
\* order, and the filesystem it leaves.
Done(out, ev, f) == [out |-> out, ev |-> ev, fs |-> f]

\* The table _SqlReader.read returns.
MockTable ==
    Table(<<"id", "name">>,
          <<<<IntCell(1), StrCell("Alice")>>, <<IntCell(2), StrCell("Bob")>>>>)

\* As SqlRead, but the source is announced before the query is checked.
MutSqlRead(f, source, kw) ==
    IF kw.query = <<>> \/ kw.query[1] = ""
    THEN Done(Raise(Exc("ValueError", "SQL read requires a 'query' argument.", NoneVal, "None")),
              <<"print">>, f)
    ELSE Done(Return(MockTable), <<"print">>, f)

\* _SqlReader.read(source, **kwargs)
SqlRead(f, source, kw) ==
    IF kw.query = <<>> \/ kw.query[1] = ""
    THEN Done(Raise(Exc("ValueError", "SQL read requires a 'query' argument.", NoneVal, "None")),
              <<>>, f)
    ELSE Done(Return(MockTable), <<"print">>, f)

\* _SqlWriter.write(df, target, **kwargs)
SqlWrite(f, T, target, kw) == Done(Return(NoneVal), <<"print">>, f)

\* pd.read_csv(source, **kwargs) on an existing source: the error it raises,
\* "ok" when it parses.
ReadCsvErr(f, source, kw) ==
    IF kw.query # <<>> \/ kw.index # <<>> THEN "TypeError"
    ELSE IF IsDir(f, source) THEN "IsADirectoryError"
    ELSE IF f[source].data = <<>> THEN "EmptyDataError"
    ELSE IF f[source].data[1] = <<>> THEN "EmptyDataError"
    ELSE "ok"

\* As CsvRead, but without the existence check: the parser meets the
\* missing file.
MutCsvRead(f, source, kw) ==
    LET e == IF ~Exists(f, source) THEN "FileNotFoundError" ELSE ReadCsvErr(f, source, kw)
        ev == <<"print", "pd.read_csv">>
    IN  IF e = "ok"
        THEN Done(Return(ParseCsv(f[source].data)), ev, f)
        ELSE Done(Raise(Exc("OSError", "Failed to read CSV from", source, e)), ev, f)

\* _CsvReader.read(source, **kwargs)
CsvRead(f, source, kw) ==
    IF ~Exists(f, source)
    THEN Done(Raise(Exc("FileNotFoundError", "The file does not exist.", source, "None")),
              <<"os.path.exists">>, f)
    ELSE LET e == ReadCsvErr(f, source, kw)
             ev == <<"os.path.exists", "print", "pd.read_csv">>
         IN  IF e = "ok"
             THEN Done(Return(ParseCsv(f[source].data)), ev, f)
             ELSE Done(Raise(Exc("OSError", "Failed to read CSV from", source, e)), ev, f)

\* df.to_csv(target, index=index, **kwargs): the error it raises, "ok" when
\* it writes the file.
ToCsvErr(f, target, kw) ==
    IF kw.query # <<>> THEN "TypeError"
    ELSE IF Len(target) > 1 /\ ~IsDir(f, Dirname(target)) THEN "OSError"
    ELSE IF IsDir(f, target) THEN "IsADirectoryError"
    ELSE "ok"

\* As IndexOption, but defaulting to pandas' own default.
MutIndexOption(kw) == IF kw.index = <<>> THEN TRUE ELSE kw.index[1]

\* kwargs.pop("index", False)
IndexOption(kw) == IF kw.index = <<>> THEN FALSE ELSE kw.index[1]

\* _CsvWriter.write(df, target, **kwargs)
CsvWrite(f, T, target, kw) ==
    LET directory == Dirname(target)
        missing == Len(directory) > 0 /\ ~Exists(f, directory)
        ev1 == (IF Len(directory) > 0 THEN <<"os.path.exists">> ELSE <<>>)
               \o (IF missing THEN <<"print", "os.makedirs">> ELSE <<>>)
        md == IF missing THEN MakeDirs(f, directory) ELSE [fs |-> f, err |-> "ok"]
        index == IndexOption(kw)
        e == ToCsvErr(md.fs, target, kw)
        ev2 == ev1 \o <<"print", "df.to_csv">>
    IN  IF md.err # "ok"
        THEN Done(Raise(Exc(md.err, "makedirs failed", directory, "None")), ev1, md.fs)
        ELSE IF e # "ok"
        THEN Done(Raise(Exc("OSError", "Failed to write CSV to", target, e)), ev2, md.fs)
        ELSE Done(Return(NoneVal), ev2, [md.fs EXCEPT ![target] = File(ToCsvText(T, index))])

\* JsonReader.read of the tests: a one-cell table holding the source.
JsonRead(f, source, kw) == Done(Return(Table(<<"source">>, <<<<StrCell(source)>>>>)), <<>>, f)

\* JsonWriter.write of the tests: pass.
JsonWrite(f, T, target, kw) == Done(Return(NoneVal), <<>>, f)

\* instance.read(source, **kwargs) by the instance's class.
Read(inst, f, source, kw) ==
    CASE inst = "_SqlReader" -> SqlRead(f, source, kw)
      [] inst = "_CsvReader" -> CsvRead(f, source, kw)
      [] OTHER -> JsonRead(f, source, kw)

\* instance.write(df, target, **kwargs) by the instance's class.
Write(inst, f, T, target, kw) ==
    CASE inst = "_SqlWriter" -> SqlWrite(f, T, target, kw)
      [] inst = "_CsvWriter" -> CsvWrite(f, T, target, kw)
      [] OTHER -> JsonWrite(f, T, target, kw)

\* ---------------------------------------------------------------- facade

\* load_data(source, fmt, **kwargs)
LoadDataRes(regs, f, source, fmt, kw) ==
    LET g == GetReaderRes(regs, fmt) IN
    IF g.kind = "raise"
    THEN [inst |-> NoneVal, res |-> Done(g, <<>>, f)]
    ELSE [inst |-> g.value, res |-> Read(g.value, f, source, kw)]

\* save_data(df, target, fmt, **kwargs)
SaveDataRes(regs, f, T, target, fmt, kw) ==
    LET g == GetWriterRes(regs, fmt) IN
    IF g.kind = "raise"
    THEN [inst |-> NoneVal, res |-> Done(g, <<>>, f)]
    ELSE [inst |-> g.value, res |-> Write(g.value, f, T, target, kw)]

\* --------------------------------------------------------------- actions

\* The history of registrations: h with the class just decorated for the tag.
Remember(h, tag, cls) == [t \in DOMAIN h \cup {tag} |-> IF t = tag THEN cls ELSE h[t]]

\* The record of the latest call: what was called with which arguments, the
\* class of the strategy instance that served it, its outcome and the
\* external calls it made.
Call(op, fmt, src, kw, inst, out, ev) ==
    [op |-> op, fmt |-> fmt, src |-> src, kw |-> kw, inst |-> inst, out |-> out, ev |-> ev]

\* As RegisterReader, but with one dictionary shared by the two roles.
MutRegisterReader(format_type, wrapped_class) ==
    /\ nregs < MaxRegs
    /\ readers' = SetItem(readers, format_type, wrapped_class)
    /\ writers' = SetItem(writers, format_type, wrapped_class)
    /\ nregs' = nregs + 1
    /\ last' = Call("register_reader", format_type, <<>>, NoKw, NoneVal,
                    Return(wrapped_class), <<>>)
    /\ latest' = [latest EXCEPT !.reader = Remember(latest.reader, format_type, wrapped_class)]
    /\ UNCHANGED <<fs, df, written>>

\* @_IOFactory.register_reader(format_type) applied to wrapped_class; latest
\* remembers, per role and tag, the class most recently handed to a decorator.
RegisterReader(format_type, wrapped_class) ==
    /\ nregs < MaxRegs
    /\ readers' = SetItem(readers, format_type, wrapped_class)
    /\ nregs' = nregs + 1
    /\ last' = Call("register_reader", format_type, <<>>, NoKw, NoneVal,
                    Return(wrapped_class), <<>>)
    /\ latest' = [latest EXCEPT !.reader = Remember(latest.reader, format_type, wrapped_class)]
    /\ UNCHANGED <<writers, fs, df, written>>

\* @_IOFactory.register_writer(format_type) applied to wrapped_class
RegisterWriter(format_type, wrapped_class) ==
    /\ nregs < MaxRegs
    /\ writers' = SetItem(writers, format_type, wrapped_class)
    /\ nregs' = nregs + 1
    /\ last' = Call("register_writer", format_type, <<>>, NoKw, NoneVal,
                    Return(wrapped_class), <<>>)
    /\ latest' = [latest EXCEPT !.writer = Remember(latest.writer, format_type, wrapped_class)]
    /\ UNCHANGED <<readers, fs, df, written>>

\* _IOFactory.get_reader(format_type)
GetReader(format_type) ==
    /\ last' = Call("get_reader", format_type, <<>>, NoKw, NoneVal,
                    GetReaderRes(readers, format_type), <<>>)
    /\ UNCHANGED <<readers, writers, fs, df, written, latest, nregs>>

\* _IOFactory.get_writer(format_type)
GetWriter(format_type) ==
    /\ last' = Call("get_writer", format_type, <<>>, NoKw, NoneVal,
                    GetWriterRes(writers, format_type), <<>>)
    /\ UNCHANGED <<readers, writers, fs, df, written, latest, nregs>>

\* load_data(source, fmt, **kwargs)
LoadData(source, fmt, kw) ==
    LET r == LoadDataRes(readers, fs, source, fmt, kw) IN
    /\ last' = Call("load_data", fmt, source, kw, r.inst, r.res.out, r.res.ev)
    /\ fs' = r.res.fs
    /\ UNCHANGED <<readers, writers, df, written, latest, nregs>>

\* save_data(df, target, fmt, **kwargs); written remembers the table and the
\* options of the latest successful CSV write to each path.
SaveData(T, target, fmt, kw) ==
    LET r == SaveDataRes(writers, fs, T, target, fmt, kw) IN
    /\ last' = Call("save_data", fmt, target, kw, r.inst, r.res.out, r.res.ev)
    /\ fs' = r.res.fs
    /\ written' = IF r.inst = "_CsvWriter" /\ r.res.out.kind = "return"
                  THEN [written EXCEPT ![target] = <<[df |-> T, kw |-> kw]>>]
                  ELSE written
    /\ UNCHANGED <<readers, writers, df, latest, nregs>>

\* -------------------------------------------------------- specifications

SampleTable == Table(<<"id">>, <<<<IntCell(1)>>>>)

OtherTable ==
    Table(<<"id", "name">>,
          <<<<IntCell(1), StrCell("x")>>, <<IntCell(2), StrCell("1")>>>>)

\* The classes the decorators of the module were applied to at import.
Decorated == [reader |-> InitReaders, writer |-> InitWriters]

Imported == Call("import", "", <<>>, NoKw, NoneVal, Return(NoneVal), <<>>)

\* The program after import, on a filesystem it may find.
Init ==
    /\ readers = InitReaders
    /\ writers = InitWriters
    /\ fs \in InitialFs
    /\ df = SampleTable
    /\ written = [p \in Paths |-> <<>>]
    /\ latest = Decorated
    /\ nregs = 0
    /\ last = Imported

\* The facade over the built-in registry.
Next ==
    \/ \E source \in Paths \cup {DbUrl}, fmt \in Tags, kw \in KwargsSet :
          LoadData(source, fmt, kw)
    \/ \E T \in {SampleTable, OtherTable}, target \in Paths, fmt \in Tags, kw \in KwargsSet :
          SaveData(T, target, fmt, kw)

Spec == Init /\ [][Next]_vars

\* The registry: registrations and lookups, and the facade on one path.
InitReg ==
    /\ readers = InitReaders
    /\ writers = InitWriters
    /\ fs = [p \in Paths |-> Absent]
    /\ df = SampleTable
    /\ written = [p \in Paths |-> <<>>]
    /\ latest = Decorated
    /\ nregs = 0
    /\ last = Imported

NextReg ==
    \/ \E t \in Tags, cls \in ReaderClasses : RegisterReader(t, cls)
    \/ \E t \in Tags, cls \in WriterClasses : RegisterWriter(t, cls)
    \/ \E t \in Tags : GetReader(t)
    \/ \E t \in Tags : GetWriter(t)
    \/ \E t \in Tags : LoadData(PathOf(1), t, NoKw)
    \/ \E t \in Tags : SaveData(df, PathOf(1), t, NoKw)

SpecReg == InitReg /\ [][NextReg]_vars

\* The CSV round trip: any table of the bounded set, written and read back.
CellValues == {IntCell(1), StrCell("x"), StrCell("1"), StrCell("")}

Headers == {<<"id">>, <<"id", "name">>}

RowsOf(h) == UNION {[1..n -> [1..Len(h) -> CellValues]] : n \in 0..MaxRows}

Tables == UNION {{Table(h, rows) : rows \in RowsOf(h)} : h \in Headers}

InitRT ==
    /\ readers = InitReaders
    /\ writers = InitWriters
    /\ fs = [p \in Paths |-> Absent]
    /\ df \in Tables
    /\ written = [p \in Paths |-> <<>>]
    /\ latest = Decorated
    /\ nregs = 0
    /\ last = Imported

NextRT ==
    \/ \E kw \in {NoKw, Kw(<<>>, <<TRUE>>), Kw(<<>>, <<FALSE>>)} :
          SaveData(df, PathOf(1), "csv", kw)
    \/ LoadData(PathOf(1), "csv", NoKw)

SpecRT == InitRT /\ [][NextRT]_vars

\* ---------------------------------------------------------------- claims

HasEvent(ev, name) == \E i \in 1..Len(ev) : ev[i] = name

\* The outcome is the ValueError of a registry miss, naming the tag.
ReaderUnknown(out, tag) ==
    /\ out.kind = "raise"
    /\ IsInstance(out.exc, "ValueError")
    /\ out.exc.text = "No reader registered for format: "
    /\ out.exc.arg = tag

WriterUnknown(out, tag) ==
    /\ out.kind = "raise"
    /\ IsInstance(out.exc, "ValueError")
    /\ out.exc.text = "No writer registered for format: "
    /\ out.exc.arg = tag

\* C1: a lookup (get_reader / load_data, get_writer / save_data) of a tag
\* with no entry in the registry of its role fails with a ValueError whose
\* message names the tag, whatever registrations and lookups came before.
C1_UnknownFormatNamesTag ==
    /\ (last.op \in {"get_reader", "load_data"} /\ last.fmt \notin DOMAIN readers)
          => ReaderUnknown(last.out, last.fmt)
    /\ (last.op \in {"get_writer", "save_data"} /\ last.fmt \notin DOMAIN writers)
          => WriterUnknown(last.out, last.fmt)

\* save_data with a tag registered as a reader only, after a registration.
C1_Witness ==
    /\ last.op = "save_data"
    /\ last.fmt = "json"
    /\ "json" \in DOMAIN readers
    /\ "json" \notin DOMAIN writers
    /\ WriterUnknown(last.out, "json")

\* C2: registering a tag again raises nothing and replaces the strategy: a
\* lookup of the tag returns an instance of the class most recently
\* registered for it (whenever that class can be constructed), never of an
\* earlier one; for readers and for writers.
C2_LastWriteWins ==
    /\ last.op \in {"register_reader", "register_writer"} => last.out.kind = "return"
    /\ (last.op = "get_reader" /\ last.fmt \in DOMAIN latest.reader) =>
          /\ last.out.kind = "return" => last.out.value = latest.reader[last.fmt]
          /\ Construct(latest.reader[last.fmt]) = "ok" => last.out.kind = "return"
    /\ (last.op = "get_writer" /\ last.fmt \in DOMAIN latest.writer) =>
          /\ last.out.kind = "return" => last.out.value = latest.writer[last.fmt]
          /\ Construct(latest.writer[last.fmt]) = "ok" => last.out.kind = "return"

\* "csv", registered at import for _CsvReader and again for JsonReader,
\* resolves to a JsonReader.
C2_Witness ==
    /\ last.op = "get_reader"
    /\ last.fmt = "csv"
    /\ last.out.kind = "return"
    /\ last.out.value = "JsonReader"

\* A registration step changes the entry of its tag in the registry of its
\* role and nothing else in either registry.
RegistrationFrame ==
    /\ (last'.op = "register_reader" /\ nregs' # nregs) =>
          /\ writers' = writers
          /\ DOMAIN readers' = DOMAIN readers \cup {last'.fmt}
          /\ readers'[last'.fmt] = last'.out.value
          /\ \A t \in DOMAIN readers \ {last'.fmt} : readers'[t] = readers[t]
    /\ (last'.op = "register_writer" /\ nregs' # nregs) =>
          /\ readers' = readers
          /\ DOMAIN writers' = DOMAIN writers \cup {last'.fmt}
          /\ writers'[last'.fmt] = last'.out.value
          /\ \A t \in DOMAIN writers \ {last'.fmt} : writers'[t] = writers[t]

\* load_data resolves a tag to the class most recently registered for it as
\* a reader; a tag never registered as a writer is unknown to get_writer;
\* and a built-in tag that was not registered again resolves to its built-in.
RegistrationEffect ==
    /\ (last.op = "load_data" /\ last.fmt \in DOMAIN latest.reader
            /\ Construct(latest.reader[last.fmt]) = "ok")
          => last.inst = latest.reader[last.fmt]
    /\ (last.op = "get_writer" /\ last.fmt \notin DOMAIN latest.writer)
          => WriterUnknown(last.out, last.fmt)
    /\ \A t \in {"csv", "sql"} :
          /\ latest.reader[t] = InitReaders[t] => GetReaderRes(readers, t) = Return(InitReaders[t])
          /\ latest.writer[t] = InitWriters[t] => GetWriterRes(writers, t) = Return(InitWriters[t])

\* C3: registering a tag as a reader makes the next load_data of that tag use
\* the new strategy and changes nothing else: no other reader entry and no
\* writer entry (and symmetrically for writers); so a tag registered only as
\* a reader is still unknown as a writer, and "csv" and "sql" stay resolvable
\* when other tags are registered.
C3_RegistrationFrame == [][RegistrationFrame]_vars /\ []RegistrationEffect

\* load_data of "json" served by the JsonReader just registered, with "json"
\* still no writer and the built-in readers in place.
C3_Witness ==
    /\ last.op = "load_data"
    /\ last.fmt = "json"
    /\ last.inst = "JsonReader"
    /\ last.out.kind = "return"
    /\ "json" \notin DOMAIN writers
    /\ readers["csv"] = "_CsvReader"
    /\ readers["sql"] = "_SqlReader"

\* C10: a tag that is registered for a role never fails with the "No
\* reader/writer registered" ValueError; a failure of the registered class's
\* constructor reaches the caller as itself.
C10_UnknownFormatOnlyOnMiss ==
    /\ (last.op \in {"get_reader", "load_data"} /\ last.fmt \in DOMAIN readers) =>
          /\ ~ReaderUnknown(last.out, last.fmt)
          /\ Construct(readers[last.fmt]) # "ok" =>
                (last.out.kind = "raise" /\ last.out.exc.type = Construct(readers[last.fmt]))
    /\ (last.op \in {"get_writer", "save_data"} /\ last.fmt \in DOMAIN writers) =>
          /\ ~WriterUnknown(last.out, last.fmt)
          /\ Construct(writers[last.fmt]) # "ok" =>
                (last.out.kind = "raise" /\ last.out.exc.type = Construct(writers[last.fmt]))

\* The call was load_data / save_data served by the built-in strategy.
SqlLoad == last.op = "load_data" /\ last.inst = "_SqlReader"

CsvLoad == last.op = "load_data" /\ last.inst = "_CsvReader"

CsvSave == last.op = "save_data" /\ last.inst = "_CsvWriter"

\* C4: load_data with "sql" and no query, or an empty one, fails with the
\* ValueError asking for a query, having made no external call at all.
C4_SqlQueryRequired ==
    (SqlLoad /\ (last.kw.query = <<>> \/ last.kw.query[1] = "")) =>
        /\ last.out.kind = "raise"
        /\ IsInstance(last.out.exc, "ValueError")
        /\ last.out.exc.text = "SQL read requires a 'query' argument."
        /\ last.ev = <<>>

\* load_data("postgres://fake-db", "sql") without a query.
C4_Witness ==
    /\ SqlLoad
    /\ last.src = DbUrl
    /\ last.kw.query = <<>>
    /\ last.out.kind = "raise"

\* C5: load_data with "csv" of a path that does not exist fails with
\* FileNotFoundError, returns no table, and never calls the CSV parser.
C5_CsvSourceNotFound ==
    (CsvLoad /\ ~Exists(fs, last.src)) =>
        /\ last.out.kind = "raise"
        /\ IsInstance(last.out.exc, "FileNotFoundError")
        /\ ~HasEvent(last.ev, "pd.read_csv")

\* load_data of a missing nested path.
C5_Witness ==
    /\ CsvLoad
    /\ Len(last.src) = 2
    /\ ~Exists(fs, last.src)
    /\ last.out.kind = "raise"
    /\ last.ev = <<"os.path.exists">>

\* The proper ancestors of a path, outermost first.
Ancestors(p) == {SubSeq(p, 1, k) : k \in 1..(Len(p) - 1)}

\* Some ancestor of the path exists and is not a directory.
Blocked(f, p) == \E a \in Ancestors(p) : Exists(f, a) /\ ~IsDir(f, a)

\* The step is save_data(_, target, "csv") with options to_csv accepts.
CsvSaveStep(target) ==
    /\ last'.op = "save_data"
    /\ last'.inst = "_CsvWriter"
    /\ last'.src = target
    /\ last'.kw.query = <<>>

SavedWithDirs(target) ==
    /\ last'.out.kind = "return"
    /\ \A a \in Ancestors(target) : IsDir(fs', a)
    /\ fs'[target].kind = "file"

\* C6 as claimed: a CSV save to a path whose parent directory does not exist
\* succeeds and leaves every ancestor directory and the file in place, and a
\* later save to a path saved before succeeds too.
C6_SaveCreatesParents ==
    [][\A target \in Paths :
          /\ (CsvSaveStep(target) /\ Len(target) > 1 /\ ~Exists(fs, Dirname(target)))
                => SavedWithDirs(target)
          /\ (CsvSaveStep(target) /\ written[target] # <<>>)
                => last'.out.kind = "return"]_vars

\* C6 amended: the same, for paths none of whose ancestors is an existing
\* non-directory.
C6_SaveCreatesParentsUnblocked ==
    [][\A target \in Paths :
          /\ (CsvSaveStep(target) /\ Len(target) > 1 /\ ~Exists(fs, Dirname(target))
                  /\ ~Blocked(fs, target))
                => SavedWithDirs(target)
          /\ (CsvSaveStep(target) /\ written[target] # <<>>)
                => last'.out.kind = "return"]_vars

\* A save that created two levels of directories and the file.
C6_Witness ==
    /\ CsvSave
    /\ Len(last.src) = 3
    /\ HasEvent(last.ev, "os.makedirs")
    /\ last.out.kind = "return"
    /\ \A a \in Ancestors(last.src) : IsDir(fs, a)
    /\ fs[last.src].kind = "file"

\* The failure is reported as the OSError of the CSV strategies: the path
\* of the call in the message and the original error as the cause.
Wrapped(out, path) ==
    /\ out.kind = "raise"
    /\ out.exc.type = "OSError"
    /\ out.exc.text \in {"Failed to read CSV from", "Failed to write CSV to"}
    /\ out.exc.arg = path
    /\ out.exc.cause # "None"

\* C8: a CSV read of an existing source, or a CSV write, that fails reaches
\* the caller as an OSError carrying the path of the call and the original
\* error as its cause.
C8_CsvFailuresWrapped ==
    /\ (CsvLoad /\ Exists(fs, last.src) /\ last.out.kind = "raise") => Wrapped(last.out, last.src)
    /\ (CsvSave /\ last.out.kind = "raise") => Wrapped(last.out, last.src)

\* What the database at the source answers to the query.
QueryResult(source, query) ==
    IF query = "SELECT 1"
    THEN Table(<<"?column?">>, <<<<IntCell(1)>>>>)
    ELSE MockTable

\* C9: load_data with "sql" and a query connects to the source, executes the
\* query, and returns what the source answers to it.
C9_SqlReturnsQueryResult ==
    (SqlLoad /\ last.out.kind = "return") =>
        /\ HasEvent(last.ev, "pd.read_sql")
        /\ last.out.value = QueryResult(last.src, last.kw.query[1])

\* The cells of column j of a table.
ColumnCells(T, j) == {T.rows[i][j] : i \in 1..Len(T.rows)}

\* Every column of the table reads back as it was written: it is empty, or
\* holds integers only, or holds strings only, none of them a missing-value
\* token and at least one of them not a number.
CsvStable(T) ==
    \A j \in 1..Len(T.cols) :
        \/ ColumnCells(T, j) = {}
        \/ \A c \in ColumnCells(T, j) : c.t = "int"
        \/ /\ \A c \in ColumnCells(T, j) : c.t = "str" /\ c.s \notin NaValues
           /\ \E c \in ColumnCells(T, j) : ~IsIntToken(c.s) /\ ~IsFloatToken(c.s)

\* The call was load_data(p, "csv") with no options, of a path last written
\* by a successful save_data(T, p, "csv", ...).
ReadBack == CsvLoad /\ last.kw = NoKw /\ written[last.src] # <<>>

\* C7 as claimed: save_data(T, p, "csv") with default options followed by
\* load_data(p, "csv") returns a table equal to T.
C7_CsvRoundTrip ==
    (ReadBack /\ written[last.src][1].kw = NoKw) =>
        /\ last.out.kind = "return"
        /\ last.out.value = written[last.src][1].df

\* C7 amended: the read-back of a default write (or one with index=False)
\* has the columns and the number of rows of T, with no index column, and is
\* equal to T when every column of T is stable under CSV; a write with
\* index=True reads back with the index as one more, unnamed, column.
C7_CsvRoundTripStable ==
    ReadBack =>
        LET w == written[last.src][1] IN
        /\ last.out.kind = "return"
        /\ Len(last.out.value.rows) = Len(w.df.rows)
        /\ w.kw.index = <<TRUE>> => last.out.value.cols = <<"Unnamed: 0">> \o w.df.cols
        /\ w.kw.index # <<TRUE>> => last.out.value.cols = w.df.cols
        /\ (w.kw = NoKw /\ CsvStable(w.df)) => last.out.value = w.df

\* A two-column, two-row table of integers and names read back equal.
C7_Witness ==
    /\ ReadBack
    /\ written[last.src][1].kw = NoKw
    /\ Len(df.cols) = 2
    /\ Len(df.rows) = 2
    /\ df.rows[1][1].t = "int"
    /\ df.rows[1][2] = StrCell("x")
    /\ last.out.kind = "return"
    /\ last.out.value = df

====
